---- MODULE Spec2Model ----
(***************************************************************************)
(* A model of the disk-backed B+-tree of lucyTheSlayer/btree:              *)
(*   src/src/page.rs : Page (typed accessors, find, insert, insert_ptr)    *)
(*   src/src/lib.rs  : BTree (new, sync, set, get, new_page, splits)       *)
(* A page is modelled by its decoded buffer: the kind tag, the u32 at      *)
(* offset 4 and the slot arrays, stale slots beyond item_count included.   *)
(* The file is the array of the page buffers written so far.               *)
(***************************************************************************)
EXTENDS Integers, Sequences, FiniteSets, TLC

\* ------------------------------------------------------------------ sizes
PAGE_SIZE == 4096
PTR_SIZE == 4
\* K::bin_size() and V::bin_size() of the instantiation BTree<K, V> the tree
\* runs with: a fixed-length string key of 1500 bytes and a value of 500
\* bytes, the smallest capacities init_layout accepts (2 items per page).
KSize == 1500
VSize == 500
\* keys are 0..MaxKey, values 1..MaxVal (0 is what a zeroed slot decodes to)
MaxKey == 5
MaxVal == 2

Keys == 0..MaxKey
Vals == 1..MaxVal

\* define_fixed_len_str!(name, StrCap): strings of up to StrCap bytes, each
\* byte of a string one of 1..MaxByte (0 is the padding byte)
StrCap == 4
MaxByte == 3
Strs == UNION {[1..n -> 1..MaxByte] : n \in 0..StrCap}

\* ---------------------------------------------------------------- options
None == <<>>
Some(x) == <<x>>
unwrap(o) == o[1]

\* Let(e, F) is F(e) with e evaluated once and bound: LET x == e IN F(x)
Let(e, F(_)) == CHOOSE y \in {F(x) : x \in {e}} : TRUE

\* Result<Page>: the page as it is when the function returns, and the error
OkR(p) == [p |-> p, err |-> "ok"]
ErrR(p, e) == [p |-> p, err |-> e]
\* the `?` operator: the rest of the function runs only after an Ok
Try(r, F(_)) == Let(r, LAMBDA x : IF x.err = "ok" THEN F(x.p) ELSE x)

\* ------------------------------------------------------------------- Page
\* K::bin_size() and V::bin_size() of the running instantiation
VARIABLE bin_size

\* init_layout: the capacity of a page of the given kind
max_item_count(pt) ==
    IF pt = "INTERNAL" THEN (PAGE_SIZE - 8 - PTR_SIZE) \div (bin_size.K + PTR_SIZE)
    ELSE IF pt = "LEAF" THEN (PAGE_SIZE - 8) \div (bin_size.K + bin_size.V)
    ELSE 0

Page_new(index, pt) ==
    IF pt = "META"
    THEN [index |-> index, page_type |-> "META", root_index |-> 0, total_pages |-> 0]
    ELSE IF pt = "INTERNAL"
    THEN [index |-> index, page_type |-> "INTERNAL", item_count |-> 0,
          keys |-> [i \in 0..(max_item_count("INTERNAL") - 1) |-> 0],
          ptrs |-> [i \in 0..max_item_count("INTERNAL") |-> 0]]
    ELSE [index |-> index, page_type |-> "LEAF", item_count |-> 0,
          keys |-> [i \in 0..(max_item_count("LEAF") - 1) |-> 0],
          values |-> [i \in 0..(max_item_count("LEAF") - 1) |-> 0]]

root_index(p) == p.root_index
total_pages(p) == p.total_pages
set_root_index(p, r) == [p EXCEPT !.root_index = r]
set_total_page(p, t) == [p EXCEPT !.total_pages = t]

item_count(p) == p.item_count

is_full(p) == item_count(p) >= max_item_count(p.page_type)

set_item_count_unchecked(p, n) == OkR([p EXCEPT !.item_count = n])

set_item_count(p, n) ==
    IF n > max_item_count(p.page_type)
    THEN ErrR(p, "Full")
    ELSE OkR([p EXCEPT !.item_count = n])

key_at(p, i) == IF i >= item_count(p) THEN None ELSE Some(p.keys[i])
value_at(p, i) == IF i >= item_count(p) THEN None ELSE Some(p.values[i])
ptr_at(p, i) == IF i >= item_count(p) + 1 THEN None ELSE Some(p.ptrs[i])

set_key_at(p, i, k) ==
    IF i >= item_count(p) THEN ErrR(p, "over size")
    ELSE OkR([p EXCEPT !.keys[i] = k])

set_value_at(p, i, v) ==
    IF i >= item_count(p) THEN ErrR(p, "over size")
    ELSE OkR([p EXCEPT !.values[i] = v])

set_ptr_at(p, i, ptr) ==
    IF i >= item_count(p) + 1 THEN ErrR(p, "over size")
    ELSE OkR([p EXCEPT !.ptrs[i] = ptr])

\* the while loop without the `if mid == 0` return: max = mid - 1 goes below 0
RECURSIVE find_loop_underflow(_, _, _, _)
find_loop_underflow(p, k, min, max) ==
    IF ~(min <= max) THEN None
    ELSE Let((min + max) \div 2, LAMBDA mid :
         Let(unwrap(key_at(p, mid)), LAMBDA mid_key :
             IF mid_key = k THEN Some(<<mid, "Current">>)
             ELSE IF k > mid_key
             THEN IF mid = item_count(p) - 1 \/ unwrap(key_at(p, mid + 1)) > k
                  THEN Some(<<mid, "Right">>)
                  ELSE find_loop_underflow(p, k, mid + 1, max)
             ELSE find_loop_underflow(p, k, min, mid - 1)))

\* the while loop of find: one iteration per unfolding
RECURSIVE find_loop(_, _, _, _)
find_loop(p, k, min, max) ==
    IF ~(min <= max) THEN None
    ELSE Let((min + max) \div 2, LAMBDA mid :
         Let(unwrap(key_at(p, mid)), LAMBDA mid_key :
             IF mid_key = k THEN Some(<<mid, "Current">>)
             ELSE IF k > mid_key
             THEN IF mid = item_count(p) - 1 \/ unwrap(key_at(p, mid + 1)) > k
                  THEN Some(<<mid, "Right">>)
                  ELSE find_loop(p, k, mid + 1, max)
             ELSE IF mid = 0
                  THEN Some(<<mid, "Left">>)
                  ELSE find_loop(p, k, min, mid - 1)))

find(p, k) ==
    IF item_count(p) = 0 THEN None
    ELSE find_loop(p, k, 0, item_count(p) - 1)

\* for j in (lo..old_item_count).rev(): slot j moves to slot j + 1
RECURSIVE insert_shift(_, _, _)
insert_shift(p, j, lo) ==
    IF j < lo THEN OkR(p)
    ELSE Try(set_key_at(p, j + 1, unwrap(key_at(p, j))), LAMBDA q :
         Try(set_value_at(q, j + 1, unwrap(value_at(q, j))), LAMBDA q2 :
         insert_shift(q2, j - 1, lo)))

\* Pos::Left inserts at slot i, Pos::Right at slot i + 1
insert_at_unsorted(p, at, k, v) ==
    Try(set_item_count(p, item_count(p) + 1), LAMBDA q :
    Try(set_key_at(q, item_count(p), k), LAMBDA q3 :
    set_value_at(q3, item_count(p), v)))

insert_at(p, at, k, v) ==
    Try(set_item_count(p, item_count(p) + 1), LAMBDA q :
    Try(insert_shift(q, item_count(p) - 1, at), LAMBDA q2 :
    Try(set_key_at(q2, at, k), LAMBDA q3 :
    set_value_at(q3, at, v))))

insert_current_key_only(p, i, k, v) == set_key_at(p, i, k)

insert_current_as_right(p, i, k, v) == insert_at(p, i + 1, k, v)

\* Pos::Current: the slot's key and value are overwritten
insert_current(p, i, k, v) ==
    Try(set_key_at(p, i, k), LAMBDA q : set_value_at(q, i, v))

\* match self.find(k) { None => ..., Some((i, pos)) => match pos { ... } }
insert_pos(p, f, k, v) ==
    IF f = None
    THEN Try(set_item_count(p, 1), LAMBDA q :
         Try(set_key_at(q, 0, k), LAMBDA q2 : set_value_at(q2, 0, v)))
    ELSE IF unwrap(f)[2] = "Current" THEN insert_current(p, unwrap(f)[1], k, v)
    ELSE IF unwrap(f)[2] = "Left" THEN insert_at(p, unwrap(f)[1], k, v)
    ELSE insert_at(p, unwrap(f)[1] + 1, k, v)

insert_full_first(p, k, v) ==
    IF is_full(p) THEN ErrR(p, "Full")
    ELSE Let(find(p, k), LAMBDA f : insert_pos(p, f, k, v))

insert(p, k, v) == Let(find(p, k), LAMBDA f : insert_pos(p, f, k, v))

\* the loop moving the keys alone
RECURSIVE insert_ptr_shift_keys_only(_, _, _)
insert_ptr_shift_keys_only(p, j, lo) ==
    IF j < lo THEN OkR(p)
    ELSE Try(set_key_at(p, j + 1, unwrap(key_at(p, j))), LAMBDA q :
         insert_ptr_shift_keys_only(q, j - 1, lo))

\* for j in (lo..old_item_count).rev(): key j moves to j + 1, ptr j+1 to j+2
RECURSIVE insert_ptr_shift(_, _, _)
insert_ptr_shift(p, j, lo) ==
    IF j < lo THEN OkR(p)
    ELSE Try(set_key_at(p, j + 1, unwrap(key_at(p, j))), LAMBDA q :
         Try(set_ptr_at(q, j + 2, unwrap(ptr_at(q, j + 1))), LAMBDA q2 :
         insert_ptr_shift(q2, j - 1, lo)))

insert_ptr_at_own_slot(p, at, k, ptr) ==
    Try(set_item_count(p, item_count(p) + 1), LAMBDA q :
    Try(insert_ptr_shift(q, item_count(p) - 1, at), LAMBDA q2 :
    Try(set_key_at(q2, at, k), LAMBDA q3 :
    set_ptr_at(q3, at, ptr))))

\* Pos::Left inserts the key at slot i, Pos::Right at slot i + 1; the key at
\* slot `at` owns the pointer at slot at + 1
insert_ptr_at(p, at, k, ptr) ==
    Try(set_item_count(p, item_count(p) + 1), LAMBDA q :
    Try(insert_ptr_shift(q, item_count(p) - 1, at), LAMBDA q2 :
    Try(set_key_at(q2, at, k), LAMBDA q3 :
    set_ptr_at(q3, at + 1, ptr))))

\* the assert of the empty-page arm fails as a panic
insert_ptr(p, k, ptr) ==
    Let(find(p, k), LAMBDA f :
        IF f = None
        THEN IF ~(unwrap(ptr_at(p, 0)) > 0)
             THEN ErrR(p, "panic")
             ELSE Try(set_item_count(p, 1), LAMBDA q :
                  Try(set_key_at(q, 0, k), LAMBDA q2 : set_ptr_at(q2, 1, ptr)))
        ELSE IF unwrap(f)[2] = "Current"
        THEN Try(set_key_at(p, unwrap(f)[1], k), LAMBDA q :
             set_ptr_at(q, unwrap(f)[1] + 1, ptr))
        ELSE IF unwrap(f)[2] = "Left" THEN insert_ptr_at(p, unwrap(f)[1], k, ptr)
        ELSE insert_ptr_at(p, unwrap(f)[1] + 1, k, ptr))

\* ------------------------------------------------------------------ file
\* Page::sync: seek to index * PAGE_SIZE and write the whole buffer. A write
\* past the end of the file leaves a hole, which reads as zero bytes: a leaf
\* page (tag 0) with item_count 0.
Page_sync(file, p) ==
    [i \in (DOMAIN file) \cup (0..p.index) |->
        IF i = p.index THEN p
        ELSE IF i \in DOMAIN file THEN file[i]
        ELSE Page_new(i, "LEAF")]

\* Page::load: read_exact fails (None) when the page lies beyond the end
Page_load(file, index) ==
    IF index \in DOMAIN file THEN Some(file[index]) ELSE None

\* the file and the sequence of page writes issued so far in this operation
Write(io, p) == [file |-> Page_sync(io.file, p), wlog |-> Append(io.wlog, p)]

\* A Page that its holder releases (a local going out of scope, an element of
\* the path vector) flushes its buffer to its file offset when dirtied.
Page_drop(io, p) ==
    IF p.index \in DOMAIN io.file /\ io.file[p.index] = p THEN io ELSE Write(io, p)

\* a Vec<Page> is dropped front to back
RECURSIVE drop_pages(_, _, _)
drop_pages(io, pages, i) ==
    IF i > Len(pages) THEN io
    ELSE Let(Page_drop(io, pages[i]), LAMBDA io1 : drop_pages(io1, pages, i + 1))

\* ----------------------------------------------------------------- BTree
BTree_sync_meta_only(io, meta, root) ==
    IF meta # None THEN Write(io, unwrap(meta)) ELSE io

BTree_sync(io, meta, root) ==
    Let(IF meta # None THEN Write(io, unwrap(meta)) ELSE io, LAMBDA io1 :
        IF root # None THEN Write(io1, unwrap(root)) ELSE io1)

new_page_no_count(meta, pt) ==
    [meta_page |-> meta, page |-> Page_new(total_pages(meta), pt)]

new_page(meta, pt) ==
    [meta_page |-> set_total_page(meta, total_pages(meta) + 1),
     page |-> Page_new(total_pages(meta), pt)]

\* for i in 0..p.item_count(): the merged key and value vectors (1-based here)
RECURSIVE leaf_merge(_, _, _, _, _)
leaf_merge(p, key, value, i, acc) ==
    Let(acc, LAMBDA a :
    IF i >= item_count(p)
    THEN IF ~a.inserted
         THEN [keys |-> Append(a.keys, key), values |-> Append(a.values, value),
               inserted |-> TRUE]
         ELSE a
    ELSE IF ~a.inserted /\ unwrap(key_at(p, i)) > key
         THEN leaf_merge(p, key, value, i + 1,
                 [keys |-> a.keys \o <<key, unwrap(key_at(p, i))>>,
                  values |-> a.values \o <<value, unwrap(value_at(p, i))>>,
                  inserted |-> TRUE])
         ELSE leaf_merge(p, key, value, i + 1,
                 [keys |-> Append(a.keys, unwrap(key_at(p, i))),
                  values |-> Append(a.values, unwrap(value_at(p, i))),
                  inserted |-> a.inserted]))

\* for i in from..to: set_key_at(i - off, keys[i])?; set_value_at(i - off, values[i])?
RECURSIVE leaf_fill(_, _, _, _, _, _)
leaf_fill(p, keys, values, i, to, off) ==
    IF i >= to THEN OkR(p)
    ELSE Try(set_key_at(p, i - off, keys[i + 1]), LAMBDA q :
         Try(set_value_at(q, i - off, values[i + 1]), LAMBDA q2 :
         leaf_fill(q2, keys, values, i + 1, to, off)))

leaf_cut_half(n) == n \div 2

\* let cut_i = (keys.len() + 1) / 2
leaf_cut(n) == (n + 1) \div 2

leaf_promoted_last_of_old(keys, cut_i) == keys[cut_i]

\* keys[cut_i].clone(): the first key of the new leaf (keys is 1-based here)
leaf_promoted(keys, cut_i) == keys[cut_i + 1]

split_leaf_page(meta, p, key, value) ==
    Let(new_page(meta, "LEAF"), LAMBDA np :
    Let(leaf_merge(p, key, value, 0,
                   [keys |-> <<>>, values |-> <<>>, inserted |-> FALSE]), LAMBDA m :
    Let(leaf_cut(Len(m.keys)), LAMBDA cut_i :
    Let(set_item_count(p, cut_i).p, LAMBDA p1 :
    Let(set_item_count(np.page, Len(m.keys) - cut_i).p, LAMBDA new1 :
    Let(leaf_fill(p1, m.keys, m.values, 0, cut_i, 0), LAMBDA rp :
    Let(IF rp.err = "ok"
        THEN leaf_fill(new1, m.keys, m.values, cut_i, Len(m.keys), cut_i)
        ELSE OkR(new1), LAMBDA rn :
        [meta_page |-> np.meta_page, p |-> rp.p, new_page |-> rn.p,
         err |-> IF rp.err # "ok" THEN rp.err ELSE rn.err,
         kp |-> <<leaf_promoted(m.keys, cut_i), np.page.index>>])))))))

RECURSIVE internal_merge(_, _, _, _, _)
internal_merge(p, key, ptr, i, acc) ==
    Let(acc, LAMBDA a :
    IF i >= item_count(p)
    THEN IF ~a.inserted
         THEN [keys |-> Append(a.keys, key), ptrs |-> Append(a.ptrs, ptr),
               inserted |-> TRUE]
         ELSE a
    ELSE IF ~a.inserted /\ unwrap(key_at(p, i)) > key
         THEN internal_merge(p, key, ptr, i + 1,
                 [keys |-> a.keys \o <<key, unwrap(key_at(p, i))>>,
                  ptrs |-> a.ptrs \o <<ptr, unwrap(ptr_at(p, i + 1))>>,
                  inserted |-> TRUE])
         ELSE internal_merge(p, key, ptr, i + 1,
                 [keys |-> Append(a.keys, unwrap(key_at(p, i))),
                  ptrs |-> Append(a.ptrs, unwrap(ptr_at(p, i + 1))),
                  inserted |-> a.inserted]))

\* for i in from..to: set_key_at(i - koff, keys[i])?; set_ptr_at(i - poff, ptrs[i + 1])?
RECURSIVE internal_fill(_, _, _, _, _, _, _)
internal_fill(p, keys, ptrs, i, to, koff, poff) ==
    IF i >= to THEN OkR(p)
    ELSE Try(set_key_at(p, i - koff, keys[i + 1]), LAMBDA q :
         Try(set_ptr_at(q, i - poff, ptrs[i + 2]), LAMBDA q2 :
         internal_fill(q2, keys, ptrs, i + 1, to, koff, poff)))

internal_up_half(n) == n \div 2

internal_up_zero(n) == 0

\* let up_i = (keys.len() - 1) / 2
internal_up(n) == (n - 1) \div 2

split_internal_page(meta, p, key, ptr) ==
    Let(new_page(meta, "INTERNAL"), LAMBDA np :
    Let(internal_merge(p, key, ptr, 0,
            [keys |-> <<>>, ptrs |-> <<unwrap(ptr_at(p, 0))>>, inserted |-> FALSE]),
        LAMBDA m :
    Let(internal_up(Len(m.keys)), LAMBDA up_i :
    Let(set_item_count(p, up_i).p, LAMBDA p1 :
    Let(set_item_count(np.page, Len(m.keys) - up_i - 1).p, LAMBDA new1 :
    Let(internal_fill(p1, m.keys, m.ptrs, 0, up_i, 0, -1), LAMBDA rp :
    Let(IF rp.err = "ok"
        THEN Try(set_ptr_at(new1, 0, m.ptrs[up_i + 2]), LAMBDA q :
             internal_fill(q, m.keys, m.ptrs, up_i + 1, Len(m.keys), up_i + 1, up_i))
        ELSE OkR(new1), LAMBDA rn :
        [meta_page |-> np.meta_page, p |-> rp.p, new_page |-> rn.p,
         err |-> IF rp.err # "ok" THEN rp.err ELSE rn.err,
         kp |-> <<m.keys[up_i + 1], np.page.index>>])))))))

\* the descent loop of set: at each internal page load the child into the path
RECURSIVE set_descend(_, _, _, _)
set_descend(p, pages, file, key) ==
    IF p.page_type = "INTERNAL"
    THEN Let(find(p, key), LAMBDA f :
             IF f = None
             THEN [pages |-> pages, panic |-> "impossible for an empty internal page"]
             ELSE Let(Page_load(file, unwrap(ptr_at(p,
                          IF unwrap(f)[2] = "Left" THEN unwrap(f)[1]
                          ELSE unwrap(f)[1] + 1))), LAMBDA ld :
                      IF ld = None
                      THEN [pages |-> pages, panic |-> "load"]
                      ELSE Let(Append(pages, unwrap(ld)), LAMBDA pages1 :
                           set_descend(unwrap(ld), pages1, file, key))))
    ELSE IF p.page_type = "LEAF"
    THEN [pages |-> pages, panic |-> ""]
    ELSE [pages |-> pages, panic |-> "impossible a meta page"]

\* what set leaves behind: the handle's two cached pages (None when taken and
\* not put back), the file with the writes issued, the Result ("Ok", the
\* error of an Err: "Full" or "over size", or "panic") and, for the properties, every Page object set held at its end
Outcome(meta, root, io, result, held) ==
    [meta_page |-> meta, root_page |-> root, file |-> io.file, wlog |-> io.wlog,
     result |-> result, held |-> held]

\* one page of the path has split: the new page is released when the split
\* function returns, the path keeps the old page
set_split_done(c, i, s) ==
    [c EXCEPT !.meta = s.meta_page,
              !.io = Page_drop(c.io, s.new_page),
              !.pages[i] = s.p,
              !.made = Append(c.made, s.new_page),
              !.kp = IF s.err = "ok" THEN Some(s.kp) ELSE c.kp,
              !.ret = IF s.err = "ok" THEN "" ELSE s.err]

\* the loop going on to the next page up after an insert_ptr
RECURSIVE set_cascade_through(_, _, _, _)
set_cascade_through(c0, i, key, value) ==
    Let(c0, LAMBDA c :
    IF i = 0 \/ c.ret # "" THEN c
    ELSE IF c.pages[i].page_type = "LEAF"
    THEN Let(split_leaf_page(c.meta, c.pages[i], key, value), LAMBDA s :
             set_cascade_through(set_split_done(c, i, s), i - 1, key, value))
    ELSE IF is_full(c.pages[i])
         THEN Let(split_internal_page(c.meta, c.pages[i],
                                      unwrap(c.kp)[1], unwrap(c.kp)[2]), LAMBDA s :
                  set_cascade_through(set_split_done(c, i, s), i - 1, key, value))
         ELSE Let(insert_ptr(c.pages[i], unwrap(c.kp)[1], unwrap(c.kp)[2]), LAMBDA r :
                  set_cascade_through([c EXCEPT !.pages[i] = r.p], i - 1, key, value)))

\* the loop handing the promoted pair past a parent with room to the page above
RECURSIVE set_cascade_skip_parent(_, _, _, _)
set_cascade_skip_parent(c0, i, key, value) ==
    Let(c0, LAMBDA c :
    IF i = 0 \/ c.ret # "" THEN c
    ELSE IF c.pages[i].page_type = "LEAF"
    THEN Let(split_leaf_page(c.meta, c.pages[i], key, value), LAMBDA s :
             set_cascade_skip_parent(set_split_done(c, i, s), i - 1, key, value))
    ELSE IF is_full(c.pages[i])
         THEN Let(split_internal_page(c.meta, c.pages[i],
                                      unwrap(c.kp)[1], unwrap(c.kp)[2]), LAMBDA s :
                  set_cascade_skip_parent(set_split_done(c, i, s), i - 1, key, value))
         ELSE set_cascade_skip_parent(c, i - 1, key, value))

\* for p in pages.iter_mut().rev(): c.ret is set when the loop returns from set
RECURSIVE set_cascade(_, _, _, _)
set_cascade(c0, i, key, value) ==
    Let(c0, LAMBDA c :
    IF i = 0 \/ c.ret # "" THEN c
    ELSE IF c.pages[i].page_type = "LEAF"
    THEN Let(split_leaf_page(c.meta, c.pages[i], key, value), LAMBDA s :
             set_cascade(set_split_done(c, i, s), i - 1, key, value))
    ELSE IF c.pages[i].page_type = "INTERNAL"
    THEN IF is_full(c.pages[i])
         THEN Let(split_internal_page(c.meta, c.pages[i],
                                      unwrap(c.kp)[1], unwrap(c.kp)[2]), LAMBDA s :
                  set_cascade(set_split_done(c, i, s), i - 1, key, value))
         ELSE Let(insert_ptr(c.pages[i], unwrap(c.kp)[1], unwrap(c.kp)[2]), LAMBDA r :
                  [c EXCEPT !.pages[i] = r.p,
                            !.ret = IF r.err = "ok" THEN "Ok" ELSE r.err])
    ELSE [c EXCEPT !.ret = "panic"])

new_root_swapped(meta, old_index, k, ptr) ==
    Let(new_page(meta, "INTERNAL"), LAMBDA np :
    Let(Try(set_item_count(np.page, 1), LAMBDA q :
        Try(set_ptr_at(q, 0, ptr), LAMBDA q2 :
        Try(set_key_at(q2, 0, k), LAMBDA q3 :
        set_ptr_at(q3, 1, old_index)))), LAMBDA r :
        [meta_page |-> np.meta_page, page |-> r.p, err |-> r.err]))

\* let mut new_root_page = self.new_page(INTERNAL)?; set_item_count(1)?; ...
new_root(meta, old_index, k, ptr) ==
    Let(new_page(meta, "INTERNAL"), LAMBDA np :
    Let(Try(set_item_count(np.page, 1), LAMBDA q :
        Try(set_ptr_at(q, 0, old_index), LAMBDA q2 :
        Try(set_key_at(q2, 0, k), LAMBDA q3 :
        set_ptr_at(q3, 1, ptr)))), LAMBDA r :
        [meta_page |-> np.meta_page, page |-> r.p, err |-> r.err]))

\* the root was taken out of the handle and has split (s is the result of
\* split_leaf_page or split_internal_page on it): build the new root, point
\* the meta page at it, cache it, release the old root, sync, release the path
set_replace_root(c, s) ==
    Let(Page_drop(c.io, s.new_page), LAMBDA io1 :
        IF s.err # "ok"
        THEN Outcome(Some(s.meta_page), None,
                     drop_pages(Page_drop(io1, s.p), c.pages, 1), s.err,
                     <<s.meta_page, s.p, s.new_page>> \o c.pages \o c.made)
        ELSE Let(new_root(s.meta_page, s.p.index, s.kp[1], s.kp[2]), LAMBDA nr :
             IF nr.err # "ok"
             THEN Outcome(Some(nr.meta_page), None,
                      drop_pages(Page_drop(Page_drop(io1, nr.page), s.p), c.pages, 1),
                      nr.err, <<nr.meta_page, s.p, s.new_page, nr.page>> \o c.pages \o c.made)
             ELSE Let(set_root_index(nr.meta_page, nr.page.index), LAMBDA meta1 :
                  Let(BTree_sync(Page_drop(io1, s.p), Some(meta1), Some(nr.page)),
                      LAMBDA io3 :
                      Outcome(Some(meta1), Some(nr.page),
                              drop_pages(io3, c.pages, 1), "Ok",
                              <<meta1, nr.page, s.p, s.new_page>> \o c.pages \o c.made)))))

\* the cascade went through the whole path: the root takes the promoted key
set_at_root(c, root) ==
    IF c.kp # None
    THEN IF root.page_type # "INTERNAL"
         THEN Outcome(Some(c.meta), Some(root), drop_pages(c.io, c.pages, 1), "panic",
                      <<c.meta, root>> \o c.pages \o c.made)
         ELSE IF is_full(root)
         THEN Let(split_internal_page(c.meta, root, unwrap(c.kp)[1], unwrap(c.kp)[2]),
                  LAMBDA s : set_replace_root(c, s))
         ELSE Let(insert_ptr(root, unwrap(c.kp)[1], unwrap(c.kp)[2]), LAMBDA ri :
                  IF ri.err # "ok"
                  THEN Outcome(Some(c.meta), Some(ri.p),
                               drop_pages(c.io, c.pages, 1), ri.err,
                               <<c.meta, ri.p>> \o c.pages \o c.made)
                  ELSE Let(BTree_sync(c.io, Some(c.meta), Some(ri.p)), LAMBDA io1 :
                       Outcome(Some(c.meta), Some(ri.p),
                               drop_pages(io1, c.pages, 1), "Ok",
                               <<c.meta, ri.p>> \o c.pages \o c.made)))
    ELSE IF ~(is_full(root) /\ root.page_type = "LEAF")
         THEN Outcome(Some(c.meta), None, Page_drop(c.io, root), "panic",
                      <<c.meta, root>>)
         ELSE LET key == c.key
                  value == c.value
              IN  Let(split_leaf_page(c.meta, root, key, value),
                      LAMBDA s : set_replace_root(c, s))

\* the leaf at the end of the path (the root when the path is empty) is full
set_split(meta, root, pages, io, key, value) ==
    Let(set_cascade([meta |-> meta, io |-> io, pages |-> pages, kp |-> None,
                     ret |-> "", made |-> <<>>, key |-> key, value |-> value],
                    Len(pages), key, value), LAMBDA c :
        IF c.ret # ""
        THEN Outcome(Some(c.meta), Some(root), drop_pages(c.io, c.pages, 1),
                     c.ret, <<c.meta, root>> \o c.pages \o c.made)
        ELSE set_at_root(c, root))

\* the leaf attempt with every Err of insert returned to the caller
set_leaf_full_returned(meta, root, pages, io, key, value) ==
    Let(insert(IF Len(pages) = 0 THEN root ELSE pages[Len(pages)], key, value),
        LAMBDA r :
        IF Len(pages) = 0
        THEN Outcome(Some(meta), Some(r.p), io,
                     IF r.err = "ok" THEN "Ok" ELSE r.err, <<meta, r.p>>)
        ELSE Let([pages EXCEPT ![Len(pages)] = r.p], LAMBDA pages1 :
             Outcome(Some(meta), Some(root), drop_pages(io, pages1, 1),
                     IF r.err = "ok" THEN "Ok" ELSE r.err, <<meta, root>> \o pages1)))

\* the leaf attempt on a handle that allocates a page before it
set_leaf_allocating(meta, root, pages, io, key, value) ==
    Let(insert(IF Len(pages) = 0 THEN root ELSE pages[Len(pages)], key, value),
        LAMBDA r :
        Let(new_page(meta, "LEAF").meta_page, LAMBDA meta1 :
        IF Len(pages) = 0
        THEN Outcome(Some(meta1), Some(r.p), io,
                     IF r.err = "ok" THEN "Ok" ELSE r.err, <<meta1, r.p>>)
        ELSE Let([pages EXCEPT ![Len(pages)] = r.p], LAMBDA pages1 :
             Outcome(Some(meta1), Some(root), drop_pages(io, pages1, 1),
                     IF r.err = "ok" THEN "Ok" ELSE r.err, <<meta1, root>> \o pages1))))

\* the leaf attempt: p.insert(key, value) on the page the descent ended at
set_leaf(meta, root, pages, io, key, value) ==
    Let(insert(IF Len(pages) = 0 THEN root ELSE pages[Len(pages)], key, value),
        LAMBDA r :
        IF r.err = "Full"
        THEN set_split(meta, root, pages, io, key, value)
        ELSE IF Len(pages) = 0
        THEN Outcome(Some(meta), Some(r.p), io,
                     IF r.err = "ok" THEN "Ok" ELSE r.err, <<meta, r.p>>)
        ELSE Let([pages EXCEPT ![Len(pages)] = r.p], LAMBDA pages1 :
             Outcome(Some(meta), Some(root), drop_pages(io, pages1, 1),
                     IF r.err = "ok" THEN "Ok" ELSE r.err, <<meta, root>> \o pages1)))

BTree_set(meta, root, file, key, value) ==
    Let(set_descend(root, <<>>, file, key), LAMBDA d :
    Let([file |-> file, wlog |-> <<>>], LAMBDA io0 :
        IF d.panic # ""
        THEN Outcome(Some(meta), Some(root), drop_pages(io0, d.pages, 1), "panic",
                     <<meta, root>> \o d.pages)
        ELSE set_leaf(meta, root, d.pages, io0, key, value)))

get_leaf_any_pos(p, f) == value_at(p, unwrap(f)[1])

\* PageType::LEAF: the value at i when the position is Current, else None
get_leaf(p, f) == IF unwrap(f)[2] = "Current" THEN value_at(p, unwrap(f)[1]) ELSE None

get_child_cleared(pages, ld) == Append(pages, set_item_count(ld, 0).p)

\* pages.push(Page::load(..).unwrap()): the loaded page joins the Vec as read
get_child(pages, ld) == Append(pages, ld)

\* the loop of get: the answer and the Vec of the pages it loaded
RECURSIVE get_loop(_, _, _, _)
get_loop(p, pages, file, key) ==
    Let(find(p, key), LAMBDA f :
        IF f = None THEN [result |-> None, panic |-> FALSE, pages |-> pages]
        ELSE IF p.page_type = "LEAF"
        THEN [result |-> get_leaf(p, f), panic |-> FALSE, pages |-> pages]
        ELSE IF p.page_type = "INTERNAL"
        THEN Let(ptr_at(p, IF unwrap(f)[2] = "Left" THEN unwrap(f)[1]
                           ELSE unwrap(f)[1] + 1), LAMBDA o :
             Let(IF o = None THEN None ELSE Page_load(file, unwrap(o)), LAMBDA ld :
                 IF ld = None THEN [result |-> None, panic |-> TRUE, pages |-> pages]
                 ELSE Let(get_child(pages, unwrap(ld)), LAMBDA pages1 :
                      get_loop(pages1[Len(pages1)], pages1, file, key))))
        ELSE [result |-> None, panic |-> FALSE, pages |-> pages])

\* what get hands its caller: the Option<V>, or a panic
Answer(g) == [result |-> g.result, panic |-> g.panic]

\* get: the answer, and the file after the Vec of loaded pages is released
BTree_get(root, file, key) ==
    Let(get_loop(root, <<>>, file, key), LAMBDA g :
    Let(drop_pages([file |-> file, wlog |-> <<>>], g.pages, 1), LAMBDA io :
        [result |-> g.result, panic |-> g.panic, file |-> io.file, wlog |-> io.wlog]))

init_as_empty_one_page(file) ==
    Let(set_root_index(set_total_page(Page_new(0, "META"), 1), 1), LAMBDA meta :
    Let(set_item_count(Page_new(1, "LEAF"), 0).p, LAMBDA root :
    Let(BTree_sync([file |-> file, wlog |-> <<>>], Some(meta), Some(root)), LAMBDA io :
        [meta_page |-> Some(meta), root_page |-> Some(root),
         file |-> io.file, wlog |-> io.wlog])))

init_as_empty(file) ==
    Let(set_root_index(set_total_page(Page_new(0, "META"), 2), 1), LAMBDA meta :
    Let(set_item_count(Page_new(1, "LEAF"), 0).p, LAMBDA root :
    Let(BTree_sync([file |-> file, wlog |-> <<>>], Some(meta), Some(root)), LAMBDA io :
        [meta_page |-> Some(meta), root_page |-> Some(root),
         file |-> io.file, wlog |-> io.wlog])))

init_load_page_one(file) ==
    Let(unwrap(Page_load(file, 0)), LAMBDA meta :
    Let(unwrap(Page_load(file, 1)), LAMBDA root :
        [meta_page |-> Some(meta), root_page |-> Some(root),
         file |-> file, wlog |-> <<>>]))

init_load(file) ==
    Let(unwrap(Page_load(file, 0)), LAMBDA meta :
    Let(unwrap(Page_load(file, root_index(meta))), LAMBDA root :
        [meta_page |-> Some(meta), root_page |-> Some(root),
         file |-> file, wlog |-> <<>>]))

BTree_new(file) ==
    IF Cardinality(DOMAIN file) = 0 THEN init_as_empty(file) ELSE init_load(file)

\* the handle goes out of scope: its fields are released in declaration order
BTree_drop(file, meta, root) ==
    Let(IF meta # None THEN Page_drop([file |-> file, wlog |-> <<>>], unwrap(meta))
        ELSE [file |-> file, wlog |-> <<>>], LAMBDA io1 :
        IF root # None THEN Page_drop(io1, unwrap(root)) ELSE io1)

\* ----------------------------------------------------------------- codec
\* encode of a fixed-length string into the first StrCap bytes of buf: the
\* bytes are copied over what the buffer holds, and a 0 is put after them
\* if bytes.len() < capacity - 1  (buf[i] of the code is buf[i + 1] here)
str_encode(s, buf) ==
    LET copied == [i \in 1..StrCap |-> IF i <= Len(s) THEN s[i] ELSE buf[i]]
    IN  IF Len(s) < StrCap - 1 THEN [copied EXCEPT ![Len(s) + 1] = 0] ELSE copied

\* the for loop of decode: the index of the first 0 byte, else the capacity
str_end_i(buf) ==
    IF \E i \in 1..StrCap : buf[i] = 0
    THEN (CHOOSE i \in 1..StrCap : buf[i] = 0 /\ \A j \in 1..(i - 1) : buf[j] # 0) - 1
    ELSE StrCap

\* decode: the bytes before str_end_i
str_decode(buf) == [i \in 1..str_end_i(buf) |-> buf[i]]

\* ----------------------------------------------------------------- state
VARIABLES
    probe,       \* one call of a Page or split function on a page built for it:
                 \* the function ("new" before any), its inputs and its result
    codec,       \* a string slot of a page buffer: its StrCap bytes, the string
                 \* last encoded into it, and whether one was ("new", "encode")
    file,        \* the tree file: page index -> page buffer
    meta_page,   \* BTree.meta_page (Option<Page>)
    root_page,   \* BTree.root_page (Option<Page>)
    latest,      \* history: key -> the value of the most recent set that returned Ok
    wlog,        \* history: the page writes the last operation issued, in order
    dirty,       \* history: the pages the last set changed in memory, as it left them
    last         \* history: the last operation, its arguments and its result,
                 \* total_pages and root_index before it, the value its key
                 \* had, whether it repeats the operation before it, and
                 \* whether a page read failed in it

vars == <<bin_size, probe, codec, file, meta_page, root_page, latest, wlog, dirty, last>>

\* a page as set finds it: the cached copy of the meta and root pages, the
\* file's copy of any other page, None for a page that does not exist yet
page_before(index) ==
    IF index = 0 THEN meta_page
    ELSE IF index = unwrap(root_page).index THEN root_page
    ELSE Page_load(file, index)

\* BTree::new on an empty file, once K and V are fixed
TreeInit ==
    \E t \in {BTree_new(<< >>)} :
        /\ file = t.file
        /\ meta_page = t.meta_page
        /\ root_page = t.root_page
        /\ latest = [k \in Keys |-> None]
        /\ wlog = t.wlog
        /\ dirty = {}
        /\ codec = [slot |-> [i \in 1..StrCap |-> 0], s |-> <<>>, op |-> "new"]
        /\ probe = [op |-> "new"]
        /\ last = [op |-> "new", key |-> 0, value |-> 0, result |-> "Ok",
                   total_pages |-> 0, root_index |-> 0, had |-> None, again |-> FALSE, io_failed |-> FALSE]

Init ==
    /\ bin_size = [K |-> KSize, V |-> VSize]
    /\ TreeInit

Set(key, value) ==
    /\ meta_page # None /\ root_page # None
    /\ UNCHANGED <<bin_size, probe, codec>>
    /\ \E m \in {unwrap(meta_page)}, r \in {unwrap(root_page)}, f \in {file} :
       \E o \in {BTree_set(m, r, f, key, value)} :
           /\ file' = o.file
           /\ meta_page' = o.meta_page
           /\ root_page' = o.root_page
           /\ wlog' = o.wlog
           /\ dirty' = {o.held[i] : i \in {j \in 1..Len(o.held) :
                            page_before(o.held[j].index) # Some(o.held[j])}}
           /\ latest' = IF o.result = "Ok" THEN [latest EXCEPT ![key] = Some(value)]
                        ELSE latest
           /\ last' = [op |-> "set", key |-> key, value |-> value, result |-> o.result,
                       total_pages |-> total_pages(unwrap(meta_page)),
                       root_index |-> root_index(unwrap(meta_page)),
                       had |-> latest[key],
                       again |-> last.op = "set" /\ last.key = key /\ last.value = value,
                       io_failed |-> FALSE]

Get(key) ==
    /\ meta_page # None /\ root_page # None
    /\ UNCHANGED <<bin_size, probe, codec>>
    /\ \E r \in {unwrap(root_page)}, f \in {file} : \E g \in {BTree_get(r, f, key)} :
           /\ file' = g.file
           /\ wlog' = g.wlog
           /\ last' = [op |-> "get", key |-> key, value |-> 0,
                       result |-> Answer(g),
                       total_pages |-> total_pages(unwrap(meta_page)),
                       root_index |-> root_index(unwrap(meta_page)),
                       had |-> latest[key], again |-> FALSE, io_failed |-> FALSE]
    /\ dirty' = {}
    /\ UNCHANGED <<meta_page, root_page, latest>>

\* the handle is dropped and the same file opened again
Reopen ==
    /\ \E m \in {meta_page}, r \in {root_page}, f \in {file} :
       \E io \in {BTree_drop(f, m, r)} :
       \E t \in {BTree_new(io.file)} :
           /\ file' = t.file
           /\ meta_page' = t.meta_page
           /\ root_page' = t.root_page
           /\ wlog' = io.wlog \o t.wlog
    /\ dirty' = {}
    /\ last' = [op |-> "reopen", key |-> 0, value |-> 0, result |-> "Ok",
                total_pages |-> total_pages(unwrap(meta_page)),
                root_index |-> root_index(unwrap(meta_page)),
                had |-> None, again |-> FALSE, io_failed |-> FALSE]
    /\ UNCHANGED <<latest, bin_size, probe, codec>>

Next ==
    \/ \E key \in Keys, value \in Vals : Set(key, value)
    \/ \E key \in Keys : Get(key)
    \/ Reopen

Spec == Init /\ [][Next]_vars

\* one key more than Keys, one value: enough keys for a leaf split whose
\* parent splits too below a root that has room
DeepKeys == 0..(MaxKey + 1)

DeepInit ==
    /\ bin_size = [K |-> KSize, V |-> VSize]
    /\ \E t \in {BTree_new(<< >>)} :
        /\ file = t.file
        /\ meta_page = t.meta_page
        /\ root_page = t.root_page
        /\ latest = [k \in DeepKeys |-> None]
        /\ wlog = t.wlog
        /\ dirty = {}
        /\ codec = [slot |-> [i \in 1..StrCap |-> 0], s |-> <<>>, op |-> "new"]
        /\ probe = [op |-> "new"]
        /\ last = [op |-> "new", key |-> 0, value |-> 0, result |-> "Ok",
                   total_pages |-> 0, root_index |-> 0, had |-> None, again |-> FALSE, io_failed |-> FALSE]

DeepNext ==
    \/ \E key \in DeepKeys : Set(key, 1)
    \/ Reopen

\* sets and reopens on seven keys
DeepSpec == DeepInit /\ [][DeepNext]_vars

\* the page whose read fails is one of pages 0..MaxPage of the file
MaxPage == 15

\* the file as read while the read of page `bad` fails (read_exact returns Err)
Unreadable(f, bad) == [i \in DOMAIN f \ {bad} |-> f[i]]

\* get while the read of page `bad` fails: when the descent loads that page
\* the unwrap of the load's Err panics, else get runs as ever
GetIo(key, bad) ==
    /\ meta_page # None /\ root_page # None
    /\ bad \in DOMAIN file
    /\ \E r \in {unwrap(root_page)}, f \in {Unreadable(file, bad)} :
       \E g \in {BTree_get(r, f, key)} :
           \/ ~g.panic /\ Get(key)
           \/ /\ g.panic
              /\ last' = [op |-> "get", key |-> key, value |-> 0,
                          result |-> Answer(g),
                          total_pages |-> total_pages(unwrap(meta_page)),
                          root_index |-> root_index(unwrap(meta_page)),
                          had |-> latest[key], again |-> FALSE, io_failed |-> TRUE]
              /\ wlog' = <<>>
              /\ dirty' = {}
              /\ UNCHANGED <<bin_size, probe, codec, file, meta_page, root_page, latest>>

\* set while the read of page `bad` fails: the descent changes nothing before
\* it loads a page, so a failed load leaves the tree as it was
SetIo(key, value, bad) ==
    /\ meta_page # None /\ root_page # None
    /\ bad \in DOMAIN file
    /\ \E r \in {unwrap(root_page)}, f \in {Unreadable(file, bad)} :
       \E d \in {set_descend(r, <<>>, f, key)} :
           \/ d.panic # "load" /\ Set(key, value)
           \/ /\ d.panic = "load"
              /\ last' = [op |-> "set", key |-> key, value |-> value,
                          result |-> "panic",
                          total_pages |-> total_pages(unwrap(meta_page)),
                          root_index |-> root_index(unwrap(meta_page)),
                          had |-> latest[key], again |-> FALSE, io_failed |-> TRUE]
              /\ wlog' = <<>>
              /\ dirty' = {}
              /\ UNCHANGED <<bin_size, probe, codec, file, meta_page, root_page, latest>>

IoNext ==
    \/ \E key \in Keys, bad \in 0..MaxPage : SetIo(key, 1, bad)
    \/ \E key \in Keys, bad \in 0..MaxPage : GetIo(key, bad)

\* the tree on a device whose page reads can fail
IoSpec == Init /\ [][IoNext]_vars

\* instantiations with 2, 3, 3 and 4 items per leaf and 2, 2, 3 and 4 items
\* per internal page
Sizes == {[K |-> KSize, V |-> VSize], [K |-> 1358, V |-> 4], [K |-> 1100, V |-> 4],
          [K |-> 1000, V |-> 20]}

\* the keys of S in ascending order
RECURSIVE Asc(_)
Asc(S) ==
    IF S = {} THEN <<>>
    ELSE LET m == CHOOSE x \in S : \A y \in S : x <= y
         IN  <<m>> \o Asc(S \ {m})

\* the value stored with key k in a page built for a probe
ValueOf(k) == (k % MaxVal) + 1

\* a leaf page holding the keys of S: set_item_count, then set_key_at and
\* set_value_at slot by slot, in ascending order
LeafWith(S) ==
    LET ks == Asc(S)
        p0 == Page_new(1, "LEAF")
    IN  [p0 EXCEPT !.item_count = Len(ks),
                   !.keys = [i \in DOMAIN p0.keys |->
                                IF i < Len(ks) THEN ks[i + 1] ELSE 0],
                   !.values = [i \in DOMAIN p0.values |->
                                  IF i < Len(ks) THEN ValueOf(ks[i + 1]) ELSE 0]]

\* p.find(k) on a leaf with ascending keys
FindProbe(S, k) ==
    /\ Cardinality(S) <= max_item_count("LEAF")
    /\ \E p \in {LeafWith(S)} :
           probe' = [op |-> "find", page |-> p, k |-> k, out |-> find(p, k)]
    /\ UNCHANGED <<bin_size, codec, file, meta_page, root_page, latest, wlog,
                   dirty, last>>

\* self.split_leaf_page(p, key, value) as set calls it: p is a full leaf that
\* does not hold key
SplitProbe(S, key, value) ==
    /\ Cardinality(S) = max_item_count("LEAF")
    /\ key \notin S
    /\ \E p \in {LeafWith(S)}, m \in {unwrap(meta_page)} :
           probe' = [op |-> "split", page |-> p, k |-> key, v |-> value,
                     out |-> split_leaf_page(m, p, key, value)]
    /\ UNCHANGED <<bin_size, codec, file, meta_page, root_page, latest, wlog,
                   dirty, last>>

\* the child pointer in slot i of an internal page built for a probe
PtrOf(i) == 10 + i

\* an internal page holding the keys of S and Cardinality(S) + 1 pointers:
\* set_item_count, then set_ptr_at and set_key_at slot by slot
InternalWith(S) ==
    LET ks == Asc(S)
        p0 == Page_new(1, "INTERNAL")
    IN  [p0 EXCEPT !.item_count = Len(ks),
                   !.keys = [i \in DOMAIN p0.keys |->
                                IF i < Len(ks) THEN ks[i + 1] ELSE 0],
                   !.ptrs = [i \in DOMAIN p0.ptrs |->
                                IF i <= Len(ks) THEN PtrOf(i) ELSE 0]]

\* self.split_internal_page(p, &k, ptr) as set calls it: p is a full internal
\* page that does not hold the promoted key
InternalSplitProbe(S, key, ptr) ==
    /\ Cardinality(S) = max_item_count("INTERNAL")
    /\ key \notin S
    /\ \E p \in {InternalWith(S)}, m \in {unwrap(meta_page)} :
           probe' = [op |-> "split_internal", page |-> p, k |-> key, ptr |-> ptr,
                     out |-> split_internal_page(m, p, key, ptr)]
    /\ UNCHANGED <<bin_size, codec, file, meta_page, root_page, latest, wlog,
                   dirty, last>>

\* p.insert_ptr(&k, ptr) as set calls it: p is an internal page with room
\* that does not hold k (an empty one with its ptr[0] set)
InsertPtrProbe(S, key, ptr) ==
    /\ Cardinality(S) < max_item_count("INTERNAL")
    /\ key \notin S
    /\ \E p \in {InternalWith(S)} :
           probe' = [op |-> "insert_ptr", page |-> p, k |-> key, ptr |-> ptr,
                     out |-> insert_ptr(p, key, ptr)]
    /\ UNCHANGED <<bin_size, codec, file, meta_page, root_page, latest, wlog,
                   dirty, last>>

ProbeInit ==
    /\ bin_size \in Sizes
    /\ TreeInit

ProbeNext ==
    \/ \E S \in SUBSET Keys, k \in Keys : FindProbe(S, k)
    \/ \E S \in SUBSET Keys, key \in Keys, value \in Vals : SplitProbe(S, key, value)
    \/ \E S \in SUBSET Keys, key \in Keys, ptr \in {20, 21} :
          InternalSplitProbe(S, key, ptr)
    \/ \E S \in SUBSET Keys, key \in Keys, ptr \in {20, 21} :
          InsertPtrProbe(S, key, ptr)

\* Page::find, Page::insert_ptr and the split functions called on pages of
\* up to 2, 3 and 4 items
ProbeSpec == ProbeInit /\ [][ProbeNext]_vars

\* a string is encoded into the slot, over the bytes the slot holds (a page
\* slot is overwritten by set_key_at / set_value_at)
Encode(s) ==
    /\ codec' = [slot |-> str_encode(s, codec.slot), s |-> s, op |-> "encode"]
    /\ UNCHANGED <<bin_size, probe, file, meta_page, root_page, latest, wlog, dirty, last>>

StrNext == \E s \in Strs : Encode(s)

\* the codec alone: strings encoded into one slot, one after another
StrSpec == Init /\ [][StrNext]_vars

\* ------------------------------------------------------------ properties
\* The tree as the handle sees it: the cached root, every other page as the
\* file holds it. `fuel` bounds the walk by the number of pages.
RECURSIVE subtree(_, _, _)
subtree(p, f, fuel) ==
    IF p.page_type = "INTERNAL" /\ fuel > 0
    THEN {p} \cup UNION {subtree(f[p.ptrs[i]], f, fuel - 1) :
                            i \in {j \in 0..item_count(p) : p.ptrs[j] \in DOMAIN f}}
    ELSE {p}

TreePages(root, f) == subtree(root, f, Cardinality(DOMAIN f))

PageKeys(p) == {p.keys[i] : i \in 0..(item_count(p) - 1)}

SubKeys(p, f) == UNION {PageKeys(q) : q \in TreePages(p, f)}

\* the number of pages on the leftmost path from p down to a leaf
RECURSIVE height(_, _, _)
height(p, f, fuel) ==
    IF p.page_type = "INTERNAL" /\ fuel > 0 /\ p.ptrs[0] \in DOMAIN f
    THEN 1 + height(f[p.ptrs[0]], f, fuel - 1)
    ELSE 1

Height == height(unwrap(root_page), file, Cardinality(DOMAIN file))

\* the (leaf index, slot, key, value) entries of the tree
LeafEntries(root, f) ==
    UNION {{<<q.index, i, q.keys[i], q.values[i]>> : i \in 0..(item_count(q) - 1)} :
              q \in {x \in TreePages(root, f) : x.page_type = "LEAF"}}

\* what get(key) returns in this state
GetNow(key) == Answer(BTree_get(unwrap(root_page), file, key))

\* C1: for every key that was ever set, get returns Some(v) with v the value of
\* the most recent set of that key, whatever splits the sets went through.
C1_GetReturnsLatest ==
    \A k \in Keys :
        latest[k] # None => GetNow(k) = [result |-> latest[k], panic |-> FALSE]

\* C1 witness: the tree has three levels (a leaf split, an internal split and
\* root replacements happened) and the last set overwrote a key with another value
C1_Witness ==
    /\ last.op = "set" /\ last.result = "Ok"
    /\ last.had # None /\ last.had # Some(last.value)
    /\ Height >= 3
    /\ GetNow(last.key).result = Some(last.value)

\* C2: get returns None for every key that was never passed to set.
C2_NoPhantomKeys ==
    \A k \in Keys :
        latest[k] = None => GetNow(k) = [result |-> None, panic |-> FALSE]

\* C2 witness: after splits, key 0 (what a zeroed slot decodes to) was never
\* set, sits between keys that were, and get(0) is None
C2_Witness ==
    /\ latest[0] = None
    /\ Height >= 3
    /\ \E k \in Keys : latest[k] # None
    /\ GetNow(0).result = None

\* the state after the handle is dropped and the file opened again
Reopened == BTree_new(BTree_drop(file, meta_page, root_page).file)

C4_ModifiedPagesWritten ==
    (last.op = "set" /\ last.result = "Ok") =>
        \A p \in dirty : Page_load(file, p.index) = Some(p)

\* page a is an ancestor of page b in the tree as the last set left it
IsAncestor(a, b) ==
    /\ a.page_type = "INTERNAL"
    /\ a.index # b.index
    /\ \E q \in TreePages(a, file) : q.index = b.index

\* C5: the page writes of one set are ordered: a child before its ancestors,
\* and every page the set allocated (a new root too) before the meta page.
C5_WriteOrder ==
    last.op = "set" =>
        \A i \in 1..Len(wlog) : \A j \in 1..Len(wlog) :
            i < j =>
                /\ ~(wlog[i].page_type # "META" /\ wlog[j].page_type # "META"
                     /\ IsAncestor(wlog[i], wlog[j]))
                /\ ~(wlog[i].page_type = "META" /\ wlog[j].index >= last.total_pages)

\* keys in slots 0..item_count-1 strictly ascending
Ascending(p) ==
    \A i \in 0..(item_count(p) - 1) : \A j \in 0..(item_count(p) - 1) :
        i < j => p.keys[i] < p.keys[j]

\* C6: in every leaf and internal page of the tree the keys in slots
\* 0..item_count-1 are strictly ascending.
C6_KeysAscending ==
    \A p \in TreePages(unwrap(root_page), file) : Ascending(p)

\* C6 witness: a three-level tree whose pages hold two keys in some leaf and in
\* some internal page
C6_Witness ==
    /\ Height >= 3
    /\ \E p \in TreePages(unwrap(root_page), file) :
          p.page_type = "LEAF" /\ item_count(p) = 2
    /\ \E p \in TreePages(unwrap(root_page), file) :
          p.page_type = "INTERNAL" /\ item_count(p) = 2

\* C7: an internal page with item_count = n has n+1 child pointers (to n+1
\* different pages of the file, none the meta page); under ptr[i] every key is
\* < key[i], under ptr[i+1] every key is >= key[i].
C7_Separators ==
    \A p \in TreePages(unwrap(root_page), file) :
        p.page_type = "INTERNAL" =>
            /\ \A i \in 0..item_count(p) :
                  /\ ptr_at(p, i) # None
                  /\ p.ptrs[i] \in DOMAIN file
                  /\ p.ptrs[i] # 0
            /\ Cardinality({p.ptrs[i] : i \in 0..item_count(p)}) = item_count(p) + 1
            /\ \A i \in 0..(item_count(p) - 1) :
                  /\ \A k \in SubKeys(file[p.ptrs[i]], file) : k < p.keys[i]
                  /\ \A k \in SubKeys(file[p.ptrs[i + 1]], file) : k >= p.keys[i]

\* C7 witness: a three-level tree in which a separator is the smallest key of
\* its right subtree and the root has two separators
C7_Witness ==
    /\ Height >= 3
    /\ \E p \in TreePages(unwrap(root_page), file) :
          /\ p.page_type = "INTERNAL"
          /\ item_count(p) = 2
          /\ p.keys[0] \in SubKeys(file[p.ptrs[1]], file)

\* C8: each key is in at most one leaf slot of the tree, and the tree holds
\* exactly one entry per key ever set (an overwrite adds none).
C8_KeyUniqueness ==
    \A es \in {LeafEntries(unwrap(root_page), file)} :
        /\ \A e1 \in es : \A e2 \in es : e1[3] = e2[3] => e1 = e2
        /\ Cardinality(es) = Cardinality({k \in Keys : latest[k] # None})

\* C8 witness: set(k, v1); ...; set(k, v2) with v1 # v2 on a tree of several
\* leaves: one entry for k, holding v2
C8_Witness ==
    /\ last.op = "set" /\ last.result = "Ok"
    /\ last.had # None /\ last.had # Some(last.value)
    /\ Height >= 2
    /\ Cardinality({e \in LeafEntries(unwrap(root_page), file) :
                       e[3] = last.key /\ e[4] = last.value}) = 1

\* a page without its stale slots
Logical(p) ==
    IF p.page_type = "LEAF"
    THEN [index |-> p.index, page_type |-> "LEAF", item_count |-> item_count(p),
          keys |-> [i \in 0..(item_count(p) - 1) |-> p.keys[i]],
          values |-> [i \in 0..(item_count(p) - 1) |-> p.values[i]]]
    ELSE [index |-> p.index, page_type |-> "INTERNAL", item_count |-> item_count(p),
          keys |-> [i \in 0..(item_count(p) - 1) |-> p.keys[i]],
          ptrs |-> [i \in 0..item_count(p) |-> p.ptrs[i]]]

\* the logical tree state: root_index, total_pages and the pages of the tree
LogicalTree(meta, root, f) ==
    [root_index |-> root_index(unwrap(meta)), total_pages |-> total_pages(unwrap(meta)),
     pages |-> {Logical(q) : q \in TreePages(unwrap(root), f)}]

\* C9: set(k, v) right after set(k, v) leaves the logical tree state as it was.
C9_OverwriteIdempotent ==
    [][(last'.op = "set" /\ last'.again) =>
          LogicalTree(meta_page', root_page', file') =
          LogicalTree(meta_page, root_page, file)]_vars

\* C9 witness: the second of two equal sets, overwriting in a full leaf below
\* an internal root
C9_Witness ==
    /\ last.op = "set" /\ last.again /\ last.result = "Ok"
    /\ Height >= 2
    /\ is_full(unwrap(Page_load(file,
           CHOOSE i \in DOMAIN file :
               /\ file[i].page_type = "LEAF"
               /\ last.key \in PageKeys(file[i])
               /\ file[i] \in TreePages(unwrap(root_page), file))))

\* what a meta page's root_index must name
RootIndexValid(m) ==
    /\ root_index(m) # 0
    /\ root_index(m) < total_pages(m)
    /\ root_index(m) \in DOMAIN file
    /\ file[root_index(m)].page_type \in {"LEAF", "INTERNAL"}

\* C10: root_index, in the cached meta page and in the file's, names an
\* existing leaf or internal page: never page 0, never at or past total_pages.
C10_RootIndexValid ==
    /\ RootIndexValid(unwrap(meta_page))
    /\ file[0].page_type = "META"
    /\ RootIndexValid(file[0])
    /\ unwrap(root_page).index = root_index(unwrap(meta_page))
    /\ unwrap(root_page).page_type \in {"LEAF", "INTERNAL"}

\* C10 witness: after two root replacements and a reopen
C10_Witness ==
    /\ last.op = "reopen"
    /\ Height >= 3
    /\ root_index(unwrap(meta_page)) > 3

\* the pages a set step brought into being: changed pages the file had no
\* page for before the step
Allocated == {p.index : p \in {q \in dirty' : q.index \notin DOMAIN file}}

C12_PageFullNotSurfaced ==
    last.op = "set" => last.result # "Full"

\* C12 witness: a set whose leaf was full and whose cascade split the full
\* internal root too (new leaf, new internal page, new root), returning Ok
C12_Witness ==
    /\ last.op = "set" /\ last.result = "Ok"
    /\ last.had = None
    /\ total_pages(unwrap(meta_page)) >= last.total_pages + 3

\* the tree holds nothing but the one entry the last set stored
FirstSet(key, value) ==
    /\ last.op = "set" /\ last.key = key /\ last.value = value
    /\ last.had = None
    /\ \A k \in Keys \ {key} : latest[k] = None

\* C13: opening an empty file makes two pages and writes both: the meta page
\* at 0 with root_index 1 and total_pages 2, an empty leaf at 1. A first
\* set(1, 2) then gives get(1) = Some(2) and get(2) = None, and allocates no page.
C13_EmptyFileInit ==
    /\ last.op = "new" =>
          /\ DOMAIN file = {0, 1}
          /\ file[0].page_type = "META"
          /\ root_index(file[0]) = 1 /\ total_pages(file[0]) = 2
          /\ file[1].page_type = "LEAF" /\ item_count(file[1]) = 0
          /\ wlog = <<file[0], file[1]>>
          /\ meta_page = Some(file[0]) /\ root_page = Some(file[1])
    /\ FirstSet(1, 2) =>
          /\ last.result = "Ok"
          /\ GetNow(1) = [result |-> Some(2), panic |-> FALSE]
          /\ GetNow(2) = [result |-> None, panic |-> FALSE]
          /\ total_pages(unwrap(meta_page)) = 2
          /\ DOMAIN file = {0, 1}

\* C13 witness: set(1, 2) was the first set on the tree made from the empty file
C13_Witness ==
    /\ FirstSet(1, 2)
    /\ unwrap(root_page).index = 1
    /\ item_count(unwrap(root_page)) = 1

\* C14: get is read-only: it leaves the cached meta page, the cached root
\* page and every page of the file as they were.
C14_GetReadOnly ==
    [][last'.op = "get" =>
          /\ file' = file
          /\ meta_page' = meta_page
          /\ root_page' = root_page]_vars

\* C14 witness: a get that went down a three-level tree, loading two pages,
\* and found its key
C14_Witness ==
    /\ last.op = "get"
    /\ Height >= 3
    /\ last.result.result # None
    /\ wlog = <<>>

\* the leaf set(key, .) goes down to from the current root
TargetLeaf(key) ==
    Let(set_descend(unwrap(root_page), <<>>, file, key).pages, LAMBDA pages :
        IF Len(pages) = 0 THEN unwrap(root_page) ELSE pages[Len(pages)])

\* C15: pages are allocated only by splits. A set whose leaf insert succeeds
\* (room in the leaf, or the key is there already) leaves total_pages,
\* root_index and every page but that leaf as they were, cached and in the
\* file; and no operation decreases total_pages.
C15_AllocOnlyBySplit ==
    [][/\ last'.op = "set" =>
            \A t \in {TargetLeaf(last'.key)} :
                insert(t, last'.key, last'.value).err = "ok" =>
                    /\ meta_page' = meta_page
                    /\ DOMAIN file' = DOMAIN file
                    /\ \A i \in DOMAIN file : i # t.index => file'[i] = file[i]
                    /\ t.index # unwrap(root_page).index => root_page' = root_page
                    /\ unwrap(root_page').index = unwrap(root_page).index
       /\ total_pages(unwrap(meta_page')) >= total_pages(unwrap(meta_page))
       /\ total_pages(file'[0]) >= total_pages(file[0])]_vars

\* C15 witness: a new key went into a leaf below the root that had room; the
\* set wrote that leaf and allocated nothing
C15_Witness ==
    /\ last.op = "set" /\ last.result = "Ok"
    /\ last.had = None
    /\ Height >= 2
    /\ total_pages(unwrap(meta_page)) = last.total_pages
    /\ Len(wlog) = 1 /\ wlog[1].page_type = "LEAF"

\* C16: no page holds more than max_item_count items. A set splits its target
\* leaf (allocates) exactly when that leaf is full and the key is not in it:
\* Page::insert then fails with Full and leaves the page as it was, while an
\* overwrite in a full leaf succeeds in place.
C16_CapacityBound ==
    [][/\ \A i \in DOMAIN file' :
             file'[i].page_type # "META" =>
                 item_count(file'[i]) <= max_item_count(file'[i].page_type)
       /\ item_count(unwrap(root_page')) <=
              max_item_count(unwrap(root_page').page_type)
       /\ last'.op = "set" =>
             \A t \in {TargetLeaf(last'.key)} :
                 /\ (total_pages(unwrap(meta_page')) > total_pages(unwrap(meta_page)))
                       <=> (is_full(t) /\ last'.key \notin PageKeys(t))
                 /\ (is_full(t) /\ last'.key \notin PageKeys(t)) =>
                       insert(t, last'.key, last'.value) = ErrR(t, "Full")
                 /\ (is_full(t) /\ last'.key \in PageKeys(t)) =>
                       /\ insert(t, last'.key, last'.value).err = "ok"
                       /\ item_count(insert(t, last'.key, last'.value).p)
                              = item_count(t)]_vars

\* C16 witness: a key of a full leaf below the root was given another value:
\* no split, no allocation
C16_Witness ==
    /\ last.op = "set" /\ last.result = "Ok"
    /\ last.had # None /\ last.had # Some(last.value)
    /\ Height >= 2
    /\ is_full(TargetLeaf(last.key))
    /\ TargetLeaf(last.key).index # unwrap(root_page).index
    /\ total_pages(unwrap(meta_page)) = last.total_pages

\* C17: fixed-capacity string round trip: decoding the slot gives back the
\* string that was last encoded into it (any length up to StrCap), whatever
\* the slot held before.
C17_StrRoundTrip ==
    codec.op = "encode" => str_decode(codec.slot) = codec.s

\* C18: an I/O failure while the descent of set or get loads a child page
\* reaches the caller as an error: set returns an Err (not Ok, no panic), get
\* reports an error (no panic, and neither None nor a value).
C18_IoErrorReported ==
    last.io_failed =>
        /\ last.op = "set" => last.result \notin {"Ok", "panic"}
        /\ last.op = "get" => (~last.result.panic /\ last.result.result = "Err")

\* C19: find on a page with ascending keys returns None exactly when the
\* page is empty; else (i, Current) exactly when key[i] = k, (i, Right) exactly
\* when key[i] < k and i is the last slot or key[i+1] > k, and (i, Left) only
\* with i = 0 and key[0] > k.
C19_FindPosition ==
    probe.op = "find" =>
        \A p \in {probe.page}, k \in {probe.k}, f \in {probe.out} :
            /\ (f = None) <=> (item_count(p) = 0)
            /\ f # None =>
                  \A i \in {unwrap(f)[1]}, pos \in {unwrap(f)[2]} :
                      /\ i \in 0..(item_count(p) - 1)
                      /\ pos \in {"Current", "Left", "Right"}
                      /\ (pos = "Current") <=> (k \in PageKeys(p))
                      /\ pos = "Current" => p.keys[i] = k
                      /\ pos = "Right" =>
                            /\ p.keys[i] < k
                            /\ i = item_count(p) - 1 \/ p.keys[i + 1] > k
                      /\ pos = "Left" => (i = 0 /\ p.keys[0] > k)

\* C19 witness: find went right of a middle slot of a four-key page
C19_Witness ==
    /\ probe.op = "find"
    /\ item_count(probe.page) = 4
    /\ probe.out # None
    /\ unwrap(probe.out)[2] = "Right"
    /\ unwrap(probe.out)[1] \in {1, 2}

\* the entries of a leaf, in slot order
Entries(p) == [i \in 1..item_count(p) |-> <<p.keys[i - 1], p.values[i - 1]>>]

\* the sorted sequence of the probed leaf's entries plus (k, v)
Merged ==
    LET ks == Asc(PageKeys(probe.page) \cup {probe.k})
    IN  [i \in 1..Len(ks) |->
            <<ks[i], IF ks[i] = probe.k THEN probe.v ELSE ValueOf(ks[i])>>]

\* the split left the first `cut` entries in the old leaf and put the others,
\* in order, in the new leaf, whose first key and index are what it promotes
SplitAt(cut) ==
    /\ probe.out.err = "ok"
    /\ Entries(probe.out.p) = SubSeq(Merged, 1, cut)
    /\ Entries(probe.out.new_page) = SubSeq(Merged, cut + 1, Len(Merged))
    /\ probe.out.p.index = probe.page.index
    /\ probe.out.new_page.index = total_pages(unwrap(meta_page))
    /\ probe.out.new_page.page_type = "LEAF"
    /\ item_count(probe.out.new_page) > 0
    /\ probe.out.kp = <<probe.out.new_page.keys[0], probe.out.new_page.index>>

\* C20, as claimed: a leaf split of N entries (the full leaf's plus the new
\* one) leaves the first ceil((N+1)/2) in the old leaf and puts the others in
\* the new leaf; the promoted separator is the first key of the new leaf.
C20_LeafSplitCeil ==
    probe.op = "split" => SplitAt((Len(Merged) + 2) \div 2)

\* C20, amended: the same with cut = floor((N+1)/2), which is ceil(N/2): it
\* differs from the claimed cut when N is even.
C20_LeafSplit ==
    probe.op = "split" => SplitAt((Len(Merged) + 1) \div 2)

\* C20 witness: a full leaf of three entries split with a fourth (N = 4), the
\* new key going to the old leaf
C20_Witness ==
    /\ probe.op = "split"
    /\ Len(Merged) = 4
    /\ probe.k \in PageKeys(probe.out.p)
    /\ probe.v # ValueOf(probe.k)

\* the merged key sequence of an internal split: the page's keys plus the
\* promoted key, ascending
MergedKeys == Asc(PageKeys(probe.page) \cup {probe.k})

\* the position (from 1) of the promoted key in the merged key sequence
PromotedAt == CHOOSE j \in 1..Len(MergedKeys) : MergedKeys[j] = probe.k

\* the merged pointer sequence: the page's pointers with the promoted pointer
\* immediately right of the promoted key (entry i + 1 here is pointer i)
MergedPtrs ==
    [i \in 1..(Len(MergedKeys) + 1) |->
        IF i <= PromotedAt THEN probe.page.ptrs[i - 1]
        ELSE IF i = PromotedAt + 1 THEN probe.ptr
        ELSE probe.page.ptrs[i - 2]]

\* the keys and the pointers of an internal page, in slot order
KeySeq(p) == [i \in 1..item_count(p) |-> p.keys[i - 1]]
PtrSeq(p) == [i \in 1..(item_count(p) + 1) |-> p.ptrs[i - 1]]

\* C21: an internal split of N merged keys and N+1 merged pointers, with
\* up = floor((N-1)/2): the old page ends with keys [0, up) and pointers
\* [0, up], the new page with keys [up+1, N) and pointers [up+1, N], the key at
\* up is promoted with the new page's index and stored in neither page, and
\* every merged pointer is in exactly one of the two pages.
C21_InternalSplit ==
    probe.op = "split_internal" =>
        \A N \in {Len(MergedKeys)} : \A up \in {(N - 1) \div 2} :
            /\ probe.out.err = "ok"
            /\ probe.out.p.index = probe.page.index
            /\ probe.out.new_page.index = total_pages(unwrap(meta_page))
            /\ probe.out.new_page.page_type = "INTERNAL"
            /\ KeySeq(probe.out.p) = SubSeq(MergedKeys, 1, up)
            /\ PtrSeq(probe.out.p) = SubSeq(MergedPtrs, 1, up + 1)
            /\ KeySeq(probe.out.new_page) = SubSeq(MergedKeys, up + 2, N)
            /\ PtrSeq(probe.out.new_page) = SubSeq(MergedPtrs, up + 2, N + 1)
            /\ probe.out.kp = <<MergedKeys[up + 1], probe.out.new_page.index>>
            /\ probe.out.kp[1] \notin PageKeys(probe.out.p) \cup PageKeys(probe.out.new_page)
            /\ PtrSeq(probe.out.p) \o PtrSeq(probe.out.new_page) = MergedPtrs
            /\ \A i \in 1..(N + 1) : \A j \in 1..(N + 1) :
                  MergedPtrs[i] = MergedPtrs[j] => i = j

\* C21 witness: a full internal page of three keys split with a fourth
\* (N = 4, up = 1), the promoted pair arriving left of the key that goes up
C21_Witness ==
    /\ probe.op = "split_internal"
    /\ Len(MergedKeys) = 4
    /\ PromotedAt = 1
    /\ item_count(probe.out.p) = 1
    /\ item_count(probe.out.new_page) = 2

\* the pages set(key, .) loads on its way down from the current root
Path(key) == set_descend(unwrap(root_page), <<>>, file, key).pages

\* set(key, .) from this state splits the root: the key is new to its leaf,
\* and the leaf and every page above it, the root included, are full
RootSplits(key) ==
    /\ key \notin PageKeys(TargetLeaf(key))
    /\ is_full(unwrap(root_page))
    /\ \A i \in 1..Len(Path(key)) : is_full(Path(key)[i])

\* the page of the given index as the set step left it in memory: as set
\* changed it, or as it was
Left(index) ==
    IF \E p \in dirty' : p.index = index
    THEN CHOOSE p \in dirty' : p.index = index
    ELSE unwrap(page_before(index))

\* C22: a set that splits the root (a full leaf root, or a full internal root
\* the cascade reaches) allocates, last, a new internal page with item_count 1,
\* ptr[0] the old root, ptr[1] the page the root's split created and key[0]
\* the key that split promoted (the first key of the new leaf; for an internal
\* root the middle key, kept in neither half), points root_index at it and
\* caches it as the root. Any other step leaves root_index and the cached
\* root's index as they were.
C22_RootReplacement ==
    [][/\ (last'.op = "set" /\ RootSplits(last'.key)) =>
            \A old \in {unwrap(root_page)}, r \in {unwrap(root_page')} :
                /\ last'.result = "Ok"
                /\ r.index = total_pages(unwrap(meta_page')) - 1
                /\ r.index >= total_pages(unwrap(meta_page))
                /\ r.page_type = "INTERNAL"
                /\ item_count(r) = 1
                /\ r.ptrs[0] = old.index
                /\ r.ptrs[1] = r.index - 1
                /\ r.ptrs[1] >= total_pages(unwrap(meta_page))
                /\ root_index(unwrap(meta_page')) = r.index
                /\ Left(r.ptrs[1]).page_type = old.page_type
                /\ old.page_type = "LEAF" =>
                      /\ r.keys[0] = Left(r.ptrs[1]).keys[0]
                      /\ PageKeys(Left(old.index)) \cup PageKeys(Left(r.ptrs[1]))
                             = PageKeys(old) \cup {last'.key}
                /\ old.page_type = "INTERNAL" =>
                      /\ r.keys[0] \notin PageKeys(Left(old.index))
                                          \cup PageKeys(Left(r.ptrs[1]))
                      /\ \E x \in Keys \ PageKeys(old) :
                            KeySeq(Left(old.index)) \o <<r.keys[0]>>
                                \o KeySeq(Left(r.ptrs[1]))
                              = Asc(PageKeys(old) \cup {x})
       /\ ~(last'.op = "set" /\ RootSplits(last'.key)) =>
            /\ root_index(unwrap(meta_page')) = root_index(unwrap(meta_page))
            /\ unwrap(root_page').index = unwrap(root_page).index]_vars

\* C22 witness: the last set split a full internal root: the new root's two
\* children are internal pages and the set allocated three pages
C22_Witness ==
    /\ last.op = "set" /\ last.result = "Ok"
    /\ root_index(unwrap(meta_page)) # last.root_index
    /\ total_pages(unwrap(meta_page)) = last.total_pages + 3
    /\ item_count(unwrap(root_page)) = 1
    /\ unwrap(root_page).ptrs[0] = last.root_index
    /\ file[unwrap(root_page).ptrs[0]].page_type = "INTERNAL"
    /\ file[unwrap(root_page).ptrs[1]].page_type = "INTERNAL"

\* the internal pages set(key, .) goes through, the root first
Ancestors(key) ==
    IF Len(Path(key)) = 0 THEN <<>>
    ELSE <<unwrap(root_page)>> \o SubSeq(Path(key), 1, Len(Path(key)) - 1)

\* set(key, .) from this state splits its leaf and the cascade stops below or
\* at the root: the key is new to the full leaf and some ancestor has room
CascadeStops(key) ==
    /\ key \notin PageKeys(TargetLeaf(key))
    /\ is_full(TargetLeaf(key))
    /\ \E j \in 1..Len(Ancestors(key)) : ~is_full(Ancestors(key)[j])

\* the position in Ancestors(key) of the first ancestor, going up, with room
StopsAt(key) ==
    CHOOSE j \in 1..Len(Ancestors(key)) :
        /\ ~is_full(Ancestors(key)[j])
        /\ \A i \in (j + 1)..Len(Ancestors(key)) : is_full(Ancestors(key)[i])

\* the position (from 1) of pointer c among the pointers of page a
PtrPos(a, c) == CHOOSE q \in 1..(item_count(a) + 1) : PtrSeq(a)[q] = c

\* the height of the tree after the step
HeightAfter == height(unwrap(root_page'), file', Cardinality(DOMAIN file'))

\* C23: the split cascade stops at the first ancestor that is not full. That
\* ancestor gets one more key and, right of the pointer to its child that
\* split, the index of the page that split made (for a leaf child the key is
\* the new leaf's first key); the pages of the path above it, root_index, the
\* cached root's index and the height of the tree stay as they were, and one
\* page is allocated per page that split.
C23_CascadeStops ==
    [][(last'.op = "set" /\ CascadeStops(last'.key)) =>
          \A anc \in {Ancestors(last'.key)}, j \in {StopsAt(last'.key)} :
          \A a \in {anc[j]}, n \in {total_pages(unwrap(meta_page)) + Len(anc) - j} :
          \A child \in {IF j = Len(anc) THEN TargetLeaf(last'.key) ELSE anc[j + 1]} :
          \A after \in {Left(a.index)}, q \in {PtrPos(a, child.index)} :
              /\ last'.result = "Ok"
              /\ total_pages(unwrap(meta_page')) = n + 1
              /\ item_count(after) = item_count(a) + 1
              /\ PtrSeq(after) = SubSeq(PtrSeq(a), 1, q) \o <<n>>
                                    \o SubSeq(PtrSeq(a), q + 1, item_count(a) + 1)
              /\ \E sep \in DeepKeys \ PageKeys(a) :
                    /\ KeySeq(after) = Asc(PageKeys(a) \cup {sep})
                    /\ after.keys[q - 1] = sep
                    /\ sep \notin PageKeys(Left(child.index))
                    /\ child.page_type = "LEAF" => sep = Left(n).keys[0]
                    /\ child.page_type = "INTERNAL" => sep \notin PageKeys(Left(n))
              /\ \A i \in 1..(j - 1) : Left(anc[i].index) = anc[i]
              /\ root_index(unwrap(meta_page')) = root_index(unwrap(meta_page))
              /\ unwrap(root_page').index = unwrap(root_page).index
              /\ HeightAfter = Height]_vars

\* C23 witness: the last set split a leaf and its full parent (two pages
\* allocated) and stopped at the root, which had room and took the promoted key
C23_Witness ==
    /\ last.op = "set" /\ last.result = "Ok"
    /\ total_pages(unwrap(meta_page)) = last.total_pages + 2
    /\ root_index(unwrap(meta_page)) = last.root_index
    /\ Height = 3
    /\ item_count(unwrap(root_page)) = 2
    /\ unwrap(root_page) \in dirty
    /\ \E i \in 0..2 : unwrap(root_page).ptrs[i] = total_pages(unwrap(meta_page)) - 1

\* C23 second case: the cascade stopped below the root, at the leaf's parent
C23_BelowRoot ==
    /\ last.op = "set" /\ last.result = "Ok"
    /\ total_pages(unwrap(meta_page)) = last.total_pages + 1
    /\ Height = 3
    /\ unwrap(root_page) \notin dirty
    /\ \E p \in dirty : p.page_type = "INTERNAL" /\ item_count(p) = 2

\* the sorted slot of the probe's key: the number of the page's keys below it
SortedSlot == Cardinality({x \in PageKeys(probe.page) : x < probe.k})

\* C24: insert_ptr(k, ptr) on an internal page with room and ascending keys
\* without k puts k at its sorted slot j and ptr at pointer slot j+1, leaves
\* keys 0..j-1 and pointers 0..j as they were and moves every key from slot j
\* on, with the pointer right of it, one slot to the right: item_count + 1
\* keys and item_count + 2 pointers in the end.
C24_InsertPtr ==
    probe.op = "insert_ptr" =>
        \A p \in {probe.page}, r \in {probe.out.p}, j \in {SortedSlot} :
            /\ probe.out.err = "ok"
            /\ r.index = p.index /\ r.page_type = "INTERNAL"
            /\ item_count(r) = item_count(p) + 1
            /\ \A i \in 0..item_count(r) : ptr_at(r, i) # None
            /\ ptr_at(r, item_count(r) + 1) = None
            /\ r.keys[j] = probe.k
            /\ r.ptrs[j + 1] = probe.ptr
            /\ \A i \in 0..(j - 1) : r.keys[i] = p.keys[i]
            /\ \A i \in 0..j : r.ptrs[i] = p.ptrs[i]
            /\ \A i \in j..(item_count(p) - 1) :
                  /\ r.keys[i + 1] = p.keys[i]
                  /\ r.ptrs[i + 2] = p.ptrs[i + 1]
            /\ Ascending(r)

\* C24 witness: a key went into slot 1 of a page of three keys, moving two
\* keys and their pointers to the right
C24_Witness ==
    /\ probe.op = "insert_ptr"
    /\ item_count(probe.page) = 3
    /\ SortedSlot = 1
    /\ probe.out.p.keys[1] = probe.k
    /\ probe.out.p.ptrs[4] = probe.page.ptrs[3]

\* C25: every internal page and every leaf other than a root leaf holds at
\* least one item, in the tree and in the file; so find gives None on an
\* empty root leaf only, and no set ends in the panic "impossible for an empty
\* internal page", whatever key it is given.
C25_NoEmptyPage ==
    /\ \A p \in TreePages(unwrap(root_page), file) :
          (p.page_type = "INTERNAL" \/ p.index # unwrap(root_page).index) =>
              /\ item_count(p) >= 1
              /\ \A k \in DeepKeys : find(p, k) # None
    /\ \A i \in DOMAIN file :
          (i # 0 /\ i # unwrap(root_page).index) => item_count(file[i]) >= 1
    /\ \A k \in DeepKeys :
          /\ set_descend(unwrap(root_page), <<>>, file, k).panic = ""
          /\ (find(unwrap(root_page), k) = None) =>
                (unwrap(root_page).page_type = "LEAF"
                 /\ item_count(unwrap(root_page)) = 0)
    /\ last.op = "set" => last.result # "panic"

\* C25 witness: a three-level tree after a set that split an internal page,
\* with a leaf of one item and an internal page of one item below the root
C25_Witness ==
    /\ last.op = "set" /\ last.result = "Ok"
    /\ total_pages(unwrap(meta_page)) >= last.total_pages + 2
    /\ Height = 3
    /\ \E p \in TreePages(unwrap(root_page), file) :
          /\ p.page_type = "LEAF" /\ item_count(p) = 1
    /\ \E p \in TreePages(unwrap(root_page), file) :
          /\ p.page_type = "INTERNAL" /\ item_count(p) = 1
          /\ p.index # unwrap(root_page).index

\* the depths (the root is at 1) of the leaves below page p
RECURSIVE leaf_depths(_, _, _, _)
leaf_depths(p, f, d, fuel) ==
    IF p.page_type = "INTERNAL" /\ fuel > 0
    THEN UNION {leaf_depths(f[p.ptrs[i]], f, d + 1, fuel - 1) :
                   i \in {j \in 0..item_count(p) : p.ptrs[j] \in DOMAIN f}}
    ELSE {d}

\* the depths of the leaves of the tree after the step
LeafDepthsAfter ==
    leaf_depths(unwrap(root_page'), file', 1, Cardinality(DOMAIN file'))

LeafDepths == leaf_depths(unwrap(root_page), file, 1, Cardinality(DOMAIN file))

\* C26: balance. After every step all leaves are at one depth below the root;
\* the height stays as it was, except in a set that replaces the root, where
\* it grows by exactly one.
C26_Balance ==
    [][/\ LeafDepthsAfter = {HeightAfter}
       /\ LeafDepths = {Height}
       /\ (last'.op = "set" /\ RootSplits(last'.key)) => HeightAfter = Height + 1
       /\ ~(last'.op = "set" /\ RootSplits(last'.key)) => HeightAfter = Height
       /\ (root_index(unwrap(meta_page')) # root_index(unwrap(meta_page)))
             <=> (HeightAfter # Height)]_vars

\* C26 witness: the last set replaced an internal root: the tree grew from
\* two levels to three, and every leaf is at depth 3
C26_Witness ==
    /\ last.op = "set" /\ last.result = "Ok"
    /\ root_index(unwrap(meta_page)) # last.root_index
    /\ file[last.root_index].page_type = "INTERNAL"
    /\ Height = 3
    /\ LeafDepths = {3}

\* the child pointers of the tree: (page index, pointer slot, pointer)
Refs ==
    UNION {{<<p.index, i, p.ptrs[i]>> : i \in 0..item_count(p)} :
              p \in {q \in TreePages(unwrap(root_page), file) :
                        q.page_type = "INTERNAL"}}

\* C27: tree shape. Every child pointer of a page reachable from the root is
\* in 1..total_pages-1 (never the meta page) and names a leaf or internal page
\* the file holds, which get loads; no page is named by two pointers, none
\* names the root, and every page but the meta page and the root is named by
\* exactly one.
C27_TreeShape ==
    /\ \A r \in Refs :
          /\ r[3] \in 1..(total_pages(unwrap(meta_page)) - 1)
          /\ Page_load(file, r[3]) # None
          /\ file[r[3]].index = r[3]
          /\ file[r[3]].page_type \in {"LEAF", "INTERNAL"}
          /\ r[3] # unwrap(root_page).index
    /\ \A r1 \in Refs : \A r2 \in Refs : r1[3] = r2[3] => r1 = r2
    /\ \A i \in 1..(total_pages(unwrap(meta_page)) - 1) :
          i # unwrap(root_page).index =>
              Cardinality({r \in Refs : r[3] = i}) = 1
    /\ \A k \in DeepKeys : ~GetNow(k).panic

\* C27 witness: a three-level tree of at least nine pages after a set that
\* split a leaf and its parent and put the new page's index in a root with
\* room, left of a pointer it had
C27_Witness ==
    /\ last.op = "set" /\ last.result = "Ok"
    /\ total_pages(unwrap(meta_page)) = last.total_pages + 2
    /\ root_index(unwrap(meta_page)) = last.root_index
    /\ Height = 3
    /\ Cardinality(Refs) >= 7
    /\ unwrap(root_page).ptrs[1] = total_pages(unwrap(meta_page)) - 1

\* no operation of the model ends in a panic or an error
NoPanic ==
    /\ last.op = "set" => last.result = "Ok"
    /\ last.op = "get" => ~last.result.panic

====
